---- MODULE Spec2Model ----
(***************************************************************************)
(* Model of the orao VRF client (src/rust/src/lib.rs): VrfRequestor with   *)
(* its three public operations request_randomness, get_randomness and      *)
(* verify_randomness_offchain, run against a ledger reached through RPC.   *)
(*                                                                         *)
(* Every RPC call is one atomic step: the ledger answers at one instant,   *)
(* and between two RPC calls of one client the ledger may change (other    *)
(* clients, the oracle).  An RPC call may also fail in transport.          *)
(*                                                                         *)
(* Two specifications share the variables:                                 *)
(*   Spec        request_randomness / get_randomness of two client         *)
(*               instances, and the oracle, starting from an empty ledger; *)
(*   VerifySpec  verify_randomness_offchain of one client instance over an *)
(*               arbitrary transaction history of the randomness account.  *)
(***************************************************************************)
EXTENDS Integers, Sequences, FiniteSets, TLC

\* ---------------------------------------------------------------- bounds
\* Calls each client instance makes under Spec.
MaxCalls == 2
\* Longest transaction history of a randomness account.
MaxHist == 3

\* ---------------------------------------------------------------- values
Clients == {"c1", "c2"}
\* Seeds a caller passes; the ledger holds one randomness account per seed.
Seeds == {"s1"}
\* Messages a signature can be over: the seeds, and one that is no seed used here.
Msgs == Seeds \cup {"s_other"}
OracleKey == "oracle"
OtherKey == "other"
Keys == {OracleKey, OtherKey}

\* An ed25519 signature, symbolically: the key that made it and the message.
NoSig == [key |-> "none", msg |-> "none"]
\* vec![0; 64]: 64 zero bytes, made by no key over no message.
ZeroSig == [key |-> "zero", msg |-> "zero"]
Sign(k, m) == [key |-> k, msg |-> m]
RealSigs == {Sign(k, m) : k \in Keys, m \in Msgs}

\* ed25519 verification of sig over msg under public key pk.
Ed25519Verify(pk, msg, sig) == sig.key = pk /\ sig.msg = msg

\* ------------------------------------------------------- ledger accounts
\* A randomness account: absent, present with undecodable data, or holding a
\* Randomness state (Pending without signature, Fulfilled with one).
AbsentAcct == [st |-> "Absent", sig |-> NoSig]
CorruptAcct == [st |-> "Corrupt", sig |-> NoSig]
PendingAcct == [st |-> "Pending", sig |-> NoSig]
FulfilledAcct(s) == [st |-> "Fulfilled", sig |-> Sign(OracleKey, s)]

\* The Randomness record (state::Randomness): status and Option<Vec<u8>>.
NoRecord == [status |-> "none", randomness |-> NoSig]
Randomness(status, sig) == [status |-> status, randomness |-> sig]
\* Records a caller can hand to verify_randomness_offchain for seed s.
Records(s) ==
  {Randomness("Pending", NoSig)}
    \cup {Randomness("Fulfilled", g) : g \in RealSigs}

\* ---------------------------------------------------------------- results
\* No call precedes the running one as the call it repeats.
NoPrev == [kind |-> "none"]
Ok(v) == [kind |-> "Ok", cause |-> "", value |-> v]
Err(kind, cause) == [kind |-> kind, cause |-> cause, value |-> NoRecord]
NoResult == [kind |-> "none", cause |-> "", value |-> NoRecord]
\* Result<(), Error>
OkUnit == Ok(NoRecord)

\* ------------------------------------------------------------ transactions
\* A confirmed transaction as get_transaction returns it: meta.status ("ok",
\* "err", or "nometa" when meta is None), whether it holds an instruction of the
\* VRF program, whether it holds an ed25519 signature-verification instruction,
\* and the public key that instruction embeds.
Tx(status, vrf, ed, key) == [status |-> status, vrfIx |-> vrf, edIx |-> ed, key |-> key]
RequestTx == Tx("ok", TRUE, FALSE, "none")
FailedRequestTx == Tx("err", TRUE, FALSE, "none")
FulfillTx == Tx("ok", TRUE, TRUE, OracleKey)
FailedFulfillTx == Tx("err", TRUE, TRUE, OracleKey)
NoMetaFulfillTx == Tx("nometa", TRUE, TRUE, OracleKey)
ForeignFulfillTx == Tx("ok", TRUE, TRUE, OtherKey)
EdOnlyTx == Tx("ok", FALSE, TRUE, OracleKey)
TxKinds ==
  {RequestTx, FulfillTx, FailedFulfillTx, NoMetaFulfillTx, ForeignFulfillTx, EdOnlyTx}

RECURSIVE SeqsUpTo(_, _)
SeqsUpTo(S, n) ==
  IF n = 0 THEN {<<>>}
  ELSE LET shorter == SeqsUpTo(S, n - 1)
       IN shorter \cup {<<x>> \o q : x \in S, q \in {r \in shorter : Len(r) = n - 1}}

VARIABLES
  acct,      \* ledger: randomness account of each seed
  hist,      \* ledger: transactions of each randomness account, newest first
  config,    \* ledger: the config account ("Valid", "Corrupt", "Absent")
  pc,        \* per client: position in request_randomness / get_randomness
  op,        \* per client: the operation called last ("request", "get")
  seed,      \* per client: the seed argument of the running call
  result,    \* per client: what the last call returned
  rpcLog,    \* per client: the RPC calls the running call has issued, in order
  checkObs,  \* per client: what the existence check of the running call observed
  failedAt,  \* per client: position in rpcLog of the first RPC call that failed
             \* in transport during the running call, 0 when none did
  rpcAnswered, \* per client: for each call of rpcLog, whether it was answered
  calls,     \* per client: calls started
  vpc,       \* verifier: position in verify_randomness_offchain
  vseed,     \* verifier: the seed argument
  vrec,      \* verifier: the randomness argument
  vsigs,     \* verifier: the listed signatures, each with the transaction it names
  vidx,      \* verifier: signatures of the list already visited by the loop
  vresult,   \* verifier: what the call returned
  vlog,      \* verifier: the RPC calls issued, in order
  vfailedAt, \* verifier: position in vlog of the RPC call that failed in
             \* transport, 0 when none did
  vfetched,  \* verifier: listing positions get_transaction was called for, in order
  vtested,   \* verifier: listing positions handed to is_vrf_fulfilled_transaction
  vchecked,  \* verifier: listing positions handed to verify::verify_randomness_offchain
  prev,      \* per client: what the get_randomness call before the running one
             \* was given, observed, issued and returned, when it is a repetition
  vprev      \* verifier: the same for verify_randomness_offchain

ledgerVars == <<acct, hist, config>>
clientVars == <<pc, op, seed, result, rpcLog, checkObs, failedAt, rpcAnswered, calls,
                prev>>
verifyVars == <<vpc, vseed, vrec, vsigs, vidx, vresult, vlog, vfailedAt, vfetched,
                vtested, vchecked, vprev>>
vars == <<acct, hist, config, pc, op, seed, result, rpcLog, checkObs, failedAt,
          rpcAnswered, calls,
          vpc, vseed, vrec, vsigs, vidx, vresult, vlog, vfailedAt, vfetched,
          vtested, vchecked, prev, vprev>>

\* ------------------------------------------------------------------ helpers
Has(log, call) == \E i \in 1..Len(log) : log[i] = call
Count(log, call) == Cardinality({i \in 1..Len(log) : log[i] = call})

\* --------------------------------------------------- the account operations
\* Randomness::decode_from_bytes: fails on data that is no Randomness layout.
decode_from_bytes(a) ==
  IF a.st = "Corrupt" THEN Err("DecodeError", "Malformed")
  ELSE Ok(Randomness(a.st, a.sig))

\* Mutant: an address without account yields a default Pending record.
get_randomness_account_default(a, rpcOk) ==
  IF ~rpcOk THEN Err("SolanaClientError", "Transport")
  ELSE IF a.st = "Absent" THEN Ok(Randomness("Pending", NoSig))
  ELSE decode_from_bytes(a)

\* get_randomness_account: rpc_client.get_account(address)? then the decoding.
\* rpcOk = FALSE is a transport failure of get_account; get_account of an
\* address with no account is an error of the client as well.
get_randomness_account(a, rpcOk) ==
  IF ~rpcOk THEN Err("SolanaClientError", "Transport")
  ELSE IF a.st = "Absent" THEN Err("SolanaClientError", "AccountNotFound")
  ELSE decode_from_bytes(a)

\* What get_randomness_account met: the state of the account at that instant,
\* and whether the get_account call was answered or failed in transport.
NotObserved == [st |-> "none", rpc |-> "none"]
Observed(a, rpcOk) == [st |-> a.st, rpc |-> IF rpcOk THEN "answered" ELSE "failed"]

\* Mutant: the submitting branch is taken whatever the check returned.
SubmitsAlways(r) == TRUE

\* request_randomness: `if let Err(_) = self.get_randomness_account(seed)`:
\* the branch that builds and submits is taken on any error of the check.
SubmitsAfterCheck(r) == r.kind # "Ok"

\* decode_treasury_acc_from_config, on the data get_account_data returned.
decode_treasury_acc_from_config(cfg) ==
  IF cfg = "Valid" THEN OkUnit ELSE Err("DecodeError", "Config")

\* ------------------------------------------------------------ client steps
Finish(c, r) ==
  /\ pc' = [pc EXCEPT ![c] = "done"]
  /\ result' = [result EXCEPT ![c] = r]

\* The client issues an RPC call, which is answered or fails in transport.
Issue(c, call, answered) ==
  /\ rpcLog' = [rpcLog EXCEPT ![c] = Append(@, call)]
  /\ rpcAnswered' = [rpcAnswered EXCEPT ![c] = Append(@, answered)]
  /\ failedAt' = [failedAt EXCEPT ![c] =
                    IF answered \/ @ > 0 THEN @ ELSE Len(rpcLog[c]) + 1]

\* A caller starts request_randomness(payer, seed).
request_randomness(c, s) ==
  /\ pc[c] \in {"idle", "done"}
  /\ calls[c] < MaxCalls
  /\ pc' = [pc EXCEPT ![c] = "req_check"]
  /\ op' = [op EXCEPT ![c] = "request"]
  /\ seed' = [seed EXCEPT ![c] = s]
  /\ result' = [result EXCEPT ![c] = NoResult]
  /\ rpcLog' = [rpcLog EXCEPT ![c] = <<>>]
  /\ rpcAnswered' = [rpcAnswered EXCEPT ![c] = <<>>]
  /\ checkObs' = [checkObs EXCEPT ![c] = NotObserved]
  /\ failedAt' = [failedAt EXCEPT ![c] = 0]
  /\ calls' = [calls EXCEPT ![c] = @ + 1]
  /\ UNCHANGED <<ledgerVars, prev, verifyVars>>

\* request_randomness, the existence check: get_randomness_account(seed), then
\* either the submitting branch or `info!("Randomness exists!")` and Ok(()).
request_randomness_check(c) ==
  /\ pc[c] = "req_check"
  /\ \E rpcOk \in BOOLEAN :
       LET r == get_randomness_account(acct[seed[c]], rpcOk) IN
       /\ checkObs' = [checkObs EXCEPT ![c] = Observed(acct[seed[c]], rpcOk)]
       /\ Issue(c, "get_account", rpcOk)
       /\ IF SubmitsAfterCheck(r)
               THEN /\ pc' = [pc EXCEPT ![c] = "req_config"]
                    /\ UNCHANGED result
               ELSE Finish(c, OkUnit)
  /\ UNCHANGED <<ledgerVars, op, seed, calls, prev, verifyVars>>

\* build_randomness_request_tx, first half: get_account_data(config_address)?,
\* decode_treasury_acc_from_config(..)?, VrfInstruction::request(..)?.
build_randomness_request_tx_config(c) ==
  /\ pc[c] = "req_config"
  /\ \E rpcOk \in BOOLEAN, ixOk \in BOOLEAN :
       /\ Issue(c, "get_account_data", rpcOk)
       /\ IF ~rpcOk \/ config = "Absent"
            THEN Finish(c, Err("SolanaClientError",
                               IF rpcOk THEN "AccountNotFound" ELSE "Transport"))
          ELSE IF decode_treasury_acc_from_config(config).kind # "Ok"
            THEN Finish(c, decode_treasury_acc_from_config(config))
          ELSE IF ~ixOk
            THEN Finish(c, Err("InstructionError", "Request"))
          ELSE /\ pc' = [pc EXCEPT ![c] = "req_blockhash"]
               /\ UNCHANGED result
  /\ UNCHANGED <<ledgerVars, op, seed, checkObs, calls, prev, verifyVars>>

\* Mutant: the error of get_latest_blockhash is dropped, the transaction is
\* built and sent all the same.
build_randomness_request_tx_blockhash_unchecked(c) ==
  /\ pc[c] = "req_blockhash"
  /\ \E rpcOk \in BOOLEAN : Issue(c, "get_latest_blockhash", rpcOk)
  /\ pc' = [pc EXCEPT ![c] = "req_send"]
  /\ UNCHANGED <<ledgerVars, op, seed, result, checkObs, calls, prev, verifyVars>>

\* build_randomness_request_tx, second half: get_latest_blockhash()?, then the
\* signed transaction.
build_randomness_request_tx_blockhash(c) ==
  /\ pc[c] = "req_blockhash"
  /\ \E rpcOk \in BOOLEAN :
       /\ Issue(c, "get_latest_blockhash", rpcOk)
       /\ IF rpcOk
            THEN /\ pc' = [pc EXCEPT ![c] = "req_send"]
                 /\ UNCHANGED result
            ELSE Finish(c, Err("SolanaClientError", "Transport"))
  /\ UNCHANGED <<ledgerVars, op, seed, checkObs, calls, prev, verifyVars>>

\* What the VRF program does with a Request transaction that is executed: it
\* creates the Pending account of an unused seed; a Request for a seed whose
\* account exists is rejected (the transaction fails) or ignored.
LandRequest(s, ignored) ==
  IF acct[s].st = "Absent"
    THEN /\ acct' = [acct EXCEPT ![s] = PendingAcct]
         /\ hist' = [hist EXCEPT ![s] = <<RequestTx>> \o @]
    ELSE /\ acct' = acct
         /\ hist' = [hist EXCEPT ![s] =
                       <<IF ignored THEN RequestTx ELSE FailedRequestTx>> \o @]

\* Mutant: after the transaction is confirmed the call goes on to read the
\* randomness account instead of returning.
send_and_confirm_transaction_then_polls(c) ==
  /\ pc[c] = "req_send"
  /\ \E landed \in BOOLEAN, confirmed \in BOOLEAN, ignored \in BOOLEAN :
       LET s == seed[c]
           fresh == acct[s].st = "Absent" IN
       /\ Issue(c, "send_and_confirm_transaction", landed /\ confirmed)
       /\ IF ~landed
            THEN /\ Finish(c, Err("SolanaClientError", "Transport"))
                 /\ UNCHANGED <<acct, hist>>
            ELSE /\ LandRequest(s, ignored)
                 /\ IF ~confirmed THEN Finish(c, Err("SolanaClientError", "Transport"))
                    ELSE IF fresh \/ ignored
                      THEN /\ pc' = [pc EXCEPT ![c] = "get_fetch"]
                           /\ UNCHANGED result
                    ELSE Finish(c, Err("SolanaClientError", "TransactionError"))
  /\ UNCHANGED <<config, op, seed, checkObs, calls, prev, verifyVars>>

\* request_randomness: rpc_client.send_and_confirm_transaction(&tx)?; Ok(()).
\* The transaction is dropped (transport failure, preflight rejection), or it
\* is executed and then confirmed to the client or not.
send_and_confirm_transaction(c) ==
  /\ pc[c] = "req_send"
  /\ \E landed \in BOOLEAN, confirmed \in BOOLEAN, ignored \in BOOLEAN :
       LET s == seed[c]
           fresh == acct[s].st = "Absent" IN
       /\ Issue(c, "send_and_confirm_transaction", landed /\ confirmed)
       /\ IF ~landed
            THEN /\ Finish(c, Err("SolanaClientError", "Transport"))
                 /\ UNCHANGED <<acct, hist>>
            ELSE /\ LandRequest(s, ignored)
                 /\ IF ~confirmed THEN Finish(c, Err("SolanaClientError", "Transport"))
                    ELSE IF fresh \/ ignored THEN Finish(c, OkUnit)
                    ELSE Finish(c, Err("SolanaClientError", "TransactionError"))
  /\ UNCHANGED <<config, op, seed, checkObs, calls, prev, verifyVars>>

\* A caller starts get_randomness(seed).
get_randomness(c, s) ==
  /\ pc[c] \in {"idle", "done"}
  /\ calls[c] < MaxCalls
  /\ pc' = [pc EXCEPT ![c] = "get_fetch"]
  /\ op' = [op EXCEPT ![c] = "get"]
  /\ seed' = [seed EXCEPT ![c] = s]
  /\ result' = [result EXCEPT ![c] = NoResult]
  /\ rpcLog' = [rpcLog EXCEPT ![c] = <<>>]
  /\ rpcAnswered' = [rpcAnswered EXCEPT ![c] = <<>>]
  /\ checkObs' = [checkObs EXCEPT ![c] = NotObserved]
  /\ failedAt' = [failedAt EXCEPT ![c] = 0]
  /\ calls' = [calls EXCEPT ![c] = @ + 1]
  /\ UNCHANGED <<ledgerVars, prev, verifyVars>>

\* Mutant: a read that finds no account creates the Pending account.
get_randomness_fetch_creating(c) ==
  /\ pc[c] = "get_fetch"
  /\ \E rpcOk \in BOOLEAN :
       /\ checkObs' = [checkObs EXCEPT ![c] = Observed(acct[seed[c]], rpcOk)]
       /\ Issue(c, "get_account", rpcOk)
       /\ Finish(c, get_randomness_account(acct[seed[c]], rpcOk))
       /\ IF rpcOk /\ acct[seed[c]].st = "Absent"
            THEN LandRequest(seed[c], FALSE)
            ELSE UNCHANGED <<acct, hist>>
  /\ UNCHANGED <<config, op, seed, calls, prev, verifyVars>>

\* get_randomness: self.get_randomness_account(seed).
get_randomness_fetch(c) ==
  /\ pc[c] = "get_fetch"
  /\ \E rpcOk \in BOOLEAN :
       /\ checkObs' = [checkObs EXCEPT ![c] = Observed(acct[seed[c]], rpcOk)]
       /\ Issue(c, "get_account", rpcOk)
       /\ Finish(c, get_randomness_account(acct[seed[c]], rpcOk))
  /\ UNCHANGED <<ledgerVars, op, seed, calls, prev, verifyVars>>

\* ------------------------------------------------------------------ oracle
\* The oracle's fulfillment transaction: the VRF instruction with its ed25519
\* companion; it writes the signature over the seed into the Pending account.
OracleFulfill(s) ==
  /\ acct[s].st = "Pending"
  /\ acct' = [acct EXCEPT ![s] = FulfilledAcct(s)]
  /\ hist' = [hist EXCEPT ![s] = <<FulfillTx>> \o @]
  /\ UNCHANGED <<config, clientVars, verifyVars>>

\* A fulfillment transaction that fails on chain: it stays in the history of
\* the account and leaves the account Pending.
OracleFailedFulfill(s) ==
  /\ acct[s].st = "Pending"
  /\ Len(hist[s]) < MaxHist
  /\ hist' = [hist EXCEPT ![s] = <<FailedFulfillTx>> \o @]
  /\ UNCHANGED <<acct, config, clientVars, verifyVars>>

VerifyIdle ==
  /\ vpc = "idle"
  /\ vseed = "s1"
  /\ vrec = NoRecord
  /\ vsigs = <<>>
  /\ vidx = 0
  /\ vresult = NoResult
  /\ vlog = <<>>
  /\ vfailedAt = 0
  /\ vfetched = <<>>
  /\ vtested = {}
  /\ vchecked = {}
  /\ vprev = NoPrev

\* ------------------------------------------------ verify_randomness_offchain
\* `randomness.randomness.clone().unwrap_or(vec![0; 64])`.
randomness_signature(r) ==
  IF r.randomness = NoSig THEN ZeroSig ELSE r.randomness

\* Mutant: no test for the empty list, the error after the loop is returned.
EmptyListFallsThrough ==
  Err("RandomnessVerifyError", "Unable to find transaction with EdSigVerify instruction")

\* `if signatures.len() == 0 { return Err(Error::NotFound(..)) }`.
EmptyListResult == Err("NotFound", "No transactions found for seed")

\* Mutant: the error after the loop is of the NotFound kind.
ExhaustedAsNotFound ==
  Err("NotFound", "Unable to find transaction with EdSigVerify instruction")

\* The error after the loop: no transaction of the list was returned on.
ExhaustedResult ==
  Err("RandomnessVerifyError", "Unable to find transaction with EdSigVerify instruction")

\* Mutant: no transaction is skipped for its status.
SkipsNothing(tx) == FALSE

\* Mutant: is_ok in place of is_err.
SkipsSuccessStatus(tx) ==
  IF tx.status = "nometa" THEN TRUE ELSE tx.status = "ok"

\* Mutant: only a transaction without meta is skipped.
SkipsOnlyWithoutMeta(tx) == tx.status = "nometa"

\* Mutant: unwrap_or(false), a transaction without meta is not skipped.
SkipsOnlyErrorStatus(tx) == tx.status = "err"

\* `tx.transaction.meta.as_ref().map(|meta| meta.status.is_err()).unwrap_or(true)`:
\* the transaction is skipped when its status is an error or it has no meta.
SkipsTransaction(tx) ==
  IF tx.status = "nometa" THEN TRUE ELSE tx.status = "err"

\* verify::is_vrf_fulfilled_transaction: the transaction holds an instruction of
\* the VRF program and the ed25519 signature-verification instruction with it.
is_vrf_fulfilled_transaction(tx) == tx.vrfIx /\ tx.edIx

\* verify::verify_randomness_offchain(tx, seed, signature): the public key of
\* the ed25519 instruction of tx must validate the signature over the seed.
verify_offchain(tx, s, sig) ==
  IF Ed25519Verify(tx.key, s, sig) THEN OkUnit
  ELSE Err("RandomnessVerifyError", "Invalid randomness")

\* Mutant: the result of the check is dropped (no `?`).
ReturnOkAfterVerify(r) == OkUnit

\* `verify_randomness_offchain(&tx, ..)?; return Ok(());`: the error of the
\* check is returned, and Ok(()) after a check that passed.
ReturnAfterVerify(r) == IF r.kind = "Ok" THEN OkUnit ELSE r

VFinish(r) ==
  /\ vpc' = "done"
  /\ vresult' = r

\* A caller starts verify_randomness_offchain(seed, randomness).
verify_randomness_offchain(s, r) ==
  /\ vpc = "idle"
  /\ vpc' = "list"
  /\ vseed' = s
  /\ vrec' = r
  /\ UNCHANGED <<ledgerVars, clientVars, vprev, vsigs, vidx, vresult, vlog, vfailedAt,
                 vfetched, vtested, vchecked>>

\* get_signatures_for_address(&req_account)?, and the test for an empty list.
\* The listing returns the whole history (MaxHist is far below the page size of
\* the RPC call); each signature stands for the transaction it names.
verify_list_signatures ==
  /\ vpc = "list"
  /\ vlog' = Append(vlog, "get_signatures_for_address")
  /\ \E rpcOk \in BOOLEAN :
       /\ vfailedAt' = IF rpcOk THEN vfailedAt ELSE Len(vlog) + 1
       /\ IF ~rpcOk
            THEN /\ VFinish(Err("SolanaClientError", "Transport"))
                 /\ UNCHANGED vsigs
            ELSE /\ vsigs' = hist[vseed]
                 /\ IF Len(hist[vseed]) = 0
                      THEN VFinish(EmptyListResult)
                      ELSE /\ vpc' = "scan"
                           /\ UNCHANGED vresult
  /\ UNCHANGED <<ledgerVars, clientVars, vprev, vseed, vrec, vidx, vfetched, vtested, vchecked>>

\* Mutant: the loop stops one signature short of the end of the list.
LoopEndsEarly(i, n) == i >= n - 1

\* Mutant: the loop does not stop at the end of the list.
LoopNeverEnds(i, n) == FALSE

\* `for signature_str in signatures.iter()`: the turn for position i of a list
\* of n signatures is the last one.
LoopEnds(i, n) == i = n

\* Mutant: a transaction that cannot be fetched is passed over.
scan_decision_fetch_error_skipped(rpcOk, tx, s, sig) ==
  IF ~rpcOk THEN "skip"
  ELSE IF SkipsTransaction(tx) THEN "skip"
  ELSE IF ~is_vrf_fulfilled_transaction(tx) THEN "pass"
  ELSE "return"

\* Mutant: a candidate whose check fails is passed over, the loop goes on.
scan_decision_continue_on_error(rpcOk, tx, s, sig) ==
  IF ~rpcOk THEN "transport"
  ELSE IF SkipsTransaction(tx) THEN "skip"
  ELSE IF ~is_vrf_fulfilled_transaction(tx) THEN "pass"
  ELSE IF verify_offchain(tx, s, sig).kind = "Ok" THEN "return"
  ELSE "pass"

\* The body of the loop for one signature: `get_transaction(..)?` returns the
\* transport error; a transaction with an error status or without meta is
\* skipped (`continue`); one that is no VRF fulfillment transaction is passed;
\* on a VRF fulfillment transaction the function returns, with the error of the
\* check or Ok(()).
scan_decision(rpcOk, tx, s, sig) ==
  IF ~rpcOk THEN "transport"
  ELSE IF SkipsTransaction(tx) THEN "skip"
  ELSE IF ~is_vrf_fulfilled_transaction(tx) THEN "pass"
  ELSE "return"

\* One turn of `for signature_str in signatures.iter()`: get_transaction(..)?,
\* the status test, is_vrf_fulfilled_transaction, the cryptographic check; after
\* the last signature, the error that follows the loop.
verify_scan_step ==
  /\ vpc = "scan"
  /\ vidx < Len(vsigs)
  /\ vlog' = Append(vlog, "get_transaction")
  /\ vfetched' = Append(vfetched, vidx + 1)
  /\ \E rpcOk \in BOOLEAN :
       LET i == vidx + 1
           tx == vsigs[i]
           sig == randomness_signature(vrec)
           d == scan_decision(rpcOk, tx, vseed, sig)
           Continue == IF LoopEnds(i, Len(vsigs)) THEN VFinish(ExhaustedResult)
                       ELSE UNCHANGED <<vpc, vresult>>
       IN
       /\ vfailedAt' = IF rpcOk THEN vfailedAt ELSE Len(vlog) + 1
       /\ vidx' = IF d = "transport" THEN vidx ELSE i
       /\ vtested' = IF d \in {"pass", "return"} THEN vtested \cup {i} ELSE vtested
       /\ vchecked' = IF d = "return" THEN vchecked \cup {i} ELSE vchecked
       /\ IF d = "transport" THEN VFinish(Err("SolanaClientError", "Transport"))
          ELSE IF d = "return"
            THEN VFinish(ReturnAfterVerify(verify_offchain(tx, vseed, sig)))
          ELSE Continue
  /\ UNCHANGED <<ledgerVars, clientVars, vprev, vseed, vrec, vsigs>>

\* Another transaction that names the randomness account is confirmed while
\* the verification runs; the ledger only appends.
LedgerAppend(s) ==
  /\ Len(hist[s]) < MaxHist
  /\ \E tx \in TxKinds : hist' = [hist EXCEPT ![s] = <<tx>> \o @]
  /\ UNCHANGED <<acct, config, clientVars, verifyVars>>

\* VerifySpec starts from any history of the randomness account.
VerifyInit ==
  /\ acct \in [Seeds -> {PendingAcct} \cup {FulfilledAcct(s) : s \in Seeds}]
  /\ hist \in [Seeds -> SeqsUpTo(TxKinds, MaxHist)]
  /\ config = "Valid"
  /\ pc = [c \in Clients |-> "idle"]
  /\ op = [c \in Clients |-> "none"]
  /\ seed = [c \in Clients |-> "s1"]
  /\ result = [c \in Clients |-> NoResult]
  /\ rpcLog = [c \in Clients |-> <<>>]
  /\ rpcAnswered = [c \in Clients |-> <<>>]
  /\ checkObs = [c \in Clients |-> NotObserved]
  /\ failedAt = [c \in Clients |-> 0]
  /\ calls = [c \in Clients |-> 0]
  /\ prev = [c \in Clients |-> NoPrev]
  /\ VerifyIdle

VerifyNext ==
  \/ \E s \in Seeds : \E r \in Records(s) : verify_randomness_offchain(s, r)
  \/ verify_list_signatures
  \/ verify_scan_step
  \/ \E s \in Seeds : LedgerAppend(s)

VerifySpec == VerifyInit /\ [][VerifyNext]_vars

\* The verifier under the assumption that every RPC call returns: a call that
\* has been issued is answered or fails, so the step that follows it is taken.
VerifyFairSpec ==
  /\ VerifySpec
  /\ WF_vars(verify_list_signatures)
  /\ WF_vars(verify_scan_step)

\* Spec starts from a ledger on which no seed is used; an account that holds
\* other data than a Randomness may sit at the address.
Init ==
  /\ acct \in [Seeds -> {AbsentAcct, CorruptAcct}]
  /\ hist = [s \in Seeds |-> <<>>]
  /\ config \in {"Valid", "Corrupt", "Absent"}
  /\ pc = [c \in Clients |-> "idle"]
  /\ seed = [c \in Clients |-> "s1"]
  /\ result = [c \in Clients |-> NoResult]
  /\ rpcLog = [c \in Clients |-> <<>>]
  /\ rpcAnswered = [c \in Clients |-> <<>>]
  /\ op = [c \in Clients |-> "none"]
  /\ checkObs = [c \in Clients |-> NotObserved]
  /\ failedAt = [c \in Clients |-> 0]
  /\ calls = [c \in Clients |-> 0]
  /\ prev = [c \in Clients |-> NoPrev]
  /\ VerifyIdle

Next ==
  \/ \E c \in Clients, s \in Seeds : request_randomness(c, s)
  \/ \E c \in Clients : request_randomness_check(c)
  \/ \E c \in Clients : build_randomness_request_tx_config(c)
  \/ \E c \in Clients : build_randomness_request_tx_blockhash(c)
  \/ \E c \in Clients : send_and_confirm_transaction(c)
  \/ \E c \in Clients, s \in Seeds : get_randomness(c, s)
  \/ \E c \in Clients : get_randomness_fetch(c)
  \/ \E s \in Seeds : OracleFulfill(s)
  \/ \E s \in Seeds : OracleFailedFulfill(s)

Spec == Init /\ [][Next]_vars

\* ------------------------------------------------ repeated read operations
\* The caller whose reads are repeated.
Reader == "c1"

\* The caller calls get_randomness again with the seed of the call that has
\* returned; `&self` and the absence of fields written by the call leave
\* nothing of that call in the client, what it did is kept for comparison.
get_randomness_repeat(c) ==
  /\ pc[c] = "done"
  /\ op[c] = "get"
  /\ prev' = [prev EXCEPT ![c] = [kind |-> "get", seed |-> seed[c], obs |-> checkObs[c],
                                   log |-> rpcLog[c], result |-> result[c]]]
  /\ pc' = [pc EXCEPT ![c] = "get_fetch"]
  /\ result' = [result EXCEPT ![c] = NoResult]
  /\ rpcLog' = [rpcLog EXCEPT ![c] = <<>>]
  /\ rpcAnswered' = [rpcAnswered EXCEPT ![c] = <<>>]
  /\ checkObs' = [checkObs EXCEPT ![c] = NotObserved]
  /\ failedAt' = [failedAt EXCEPT ![c] = 0]
  /\ UNCHANGED <<ledgerVars, op, seed, calls, verifyVars>>

\* The caller calls verify_randomness_offchain again with the arguments of the
\* call that has returned.
verify_randomness_offchain_repeat ==
  /\ vpc = "done"
  /\ vprev' = [kind |-> "verify", seed |-> vseed, rec |-> vrec, sigs |-> vsigs,
               failedAt |-> vfailedAt, log |-> vlog, result |-> vresult]
  /\ vpc' = "list"
  /\ vsigs' = <<>>
  /\ vidx' = 0
  /\ vresult' = NoResult
  /\ vlog' = <<>>
  /\ vfailedAt' = 0
  /\ vfetched' = <<>>
  /\ vtested' = {}
  /\ vchecked' = {}
  /\ UNCHANGED <<ledgerVars, clientVars, vseed, vrec>>

\* ReadSpec starts from a ledger on which the seed is unused, or requested
\* and not yet fulfilled.
ReadInit ==
  /\ \/ acct = [s \in Seeds |-> AbsentAcct] /\ hist = [s \in Seeds |-> <<>>]
     \/ acct = [s \in Seeds |-> PendingAcct] /\ hist = [s \in Seeds |-> <<RequestTx>>]
  /\ config = "Valid"
  /\ pc = [c \in Clients |-> "idle"]
  /\ op = [c \in Clients |-> "none"]
  /\ seed = [c \in Clients |-> "s1"]
  /\ result = [c \in Clients |-> NoResult]
  /\ rpcLog = [c \in Clients |-> <<>>]
  /\ rpcAnswered = [c \in Clients |-> <<>>]
  /\ checkObs = [c \in Clients |-> NotObserved]
  /\ failedAt = [c \in Clients |-> 0]
  /\ calls = [c \in Clients |-> 0]
  /\ prev = [c \in Clients |-> NoPrev]
  /\ VerifyIdle

\* The read operations, repeated at will, while the oracle changes the ledger.
ReadNext ==
  \/ \E s \in Seeds : get_randomness(Reader, s)
  \/ get_randomness_fetch(Reader)
  \/ get_randomness_repeat(Reader)
  \/ \E s \in Seeds : \E r \in Records(s) : verify_randomness_offchain(s, r)
  \/ verify_list_signatures
  \/ verify_scan_step
  \/ verify_randomness_offchain_repeat
  \/ \E s \in Seeds : OracleFulfill(s)
  \/ \E s \in Seeds : OracleFailedFulfill(s)

ReadSpec == ReadInit /\ [][ReadNext]_vars

\* ---------------------------------------------------------------- claims
Requesting(c) == op[c] = "request"
Submitted(c) == Has(rpcLog[c], "send_and_confirm_transaction")
\* The existence check of c's call was answered and found a decodable account.
FoundExisting(c) ==
  /\ checkObs[c].rpc = "answered"
  /\ checkObs[c].st \in {"Pending", "Fulfilled"}

C7_RpcFailureSurfaced ==
  \A c \in Clients :
    (Requesting(c) /\ failedAt[c] > 0) =>
      /\ pc[c] = "done"
      /\ result[c].kind = "SolanaClientError"
      /\ Len(rpcLog[c]) = failedAt[c]

\* C8: a client whose existence check runs when the randomness account of the
\* seed exists submits no Request transaction, so that every client that has
\* submitted one ran its check before the account was created.
C8_NoSubmissionOnceAccountExists ==
  \A c \in Clients :
    (Requesting(c) /\ checkObs[c].st \in {"Pending", "Fulfilled"}) => ~Submitted(c)

\* The race the client does not exclude: both clients checked while the account
\* was absent, both checks were answered, and both have submitted.
BothSubmittedAfterAbsentCheck ==
  \A c \in Clients :
    /\ Requesting(c) /\ Submitted(c)
    /\ checkObs[c] = [st |-> "Absent", rpc |-> "answered"]

\* The RPC calls of a request_randomness call that submits, in their order.
SubmittingCalls ==
  <<"get_account", "get_account_data", "get_latest_blockhash",
    "send_and_confirm_transaction">>
IsPrefix(p, q) == Len(p) <= Len(q) /\ \A i \in 1..Len(p) : p[i] = q[i]

\* C11: a request_randomness call that has called send_and_confirm_transaction
\* has issued, in the same call and in this order, the existence check, the
\* config fetch (answered, the treasury decodable) and the blockhash fetch
\* (answered) before it, and has submitted once; a call whose config fetch,
\* treasury decoding, instruction building or blockhash fetch failed has
\* returned that error without calling send_and_confirm_transaction.
C11_SubmissionOrderNoRetry ==
  \A c \in Clients :
    Requesting(c) =>
      /\ IsPrefix(rpcLog[c], SubmittingCalls)
      /\ Submitted(c) =>
           /\ rpcLog[c] = SubmittingCalls
           /\ rpcAnswered[c][2] /\ rpcAnswered[c][3]
           /\ decode_treasury_acc_from_config(config).kind = "Ok"
      /\ \A i \in {2, 3} :
           (Len(rpcLog[c]) >= i /\ ~rpcAnswered[c][i]) =>
             /\ pc[c] = "done"
             /\ result[c] = Err("SolanaClientError", "Transport")
             /\ Len(rpcLog[c]) = i
      /\ (pc[c] = "done" /\ result[c].kind \in {"DecodeError", "InstructionError"}) =>
           rpcLog[c] = <<"get_account", "get_account_data">>
      /\ (Len(rpcLog[c]) >= 2 /\ config # "Valid") =>
           /\ pc[c] = "done" /\ result[c].kind # "Ok" /\ Len(rpcLog[c]) = 2

\* C11 witness: one client has submitted after the three fetches, the other's
\* call has ended on a failed blockhash fetch without submitting.
C11_Witness ==
  /\ Requesting("c1") /\ Submitted("c1") /\ pc["c1"] = "done"
  /\ Requesting("c2") /\ pc["c2"] = "done"
  /\ rpcLog["c2"] = <<"get_account", "get_account_data", "get_latest_blockhash">>
  /\ ~rpcAnswered["c2"][3]

\* The account of seed s becomes Fulfilled in this step.
BecomesFulfilled(s) == acct[s].st # "Fulfilled" /\ acct'[s].st = "Fulfilled"

\* The state part of C17: a call that has submitted has ended, and the
\* submission is its last RPC call; it returned Ok only if the submission was
\* answered, and the transport error if it was not. A get_randomness call that
\* reads a Pending account returns the Pending record without signature.
ReturnsAfterSubmission ==
  \A c \in Clients :
    /\ (Requesting(c) /\ Submitted(c)) =>
         /\ pc[c] = "done"
         /\ rpcLog[c] = SubmittingCalls
         /\ result[c] = OkUnit => rpcAnswered[c][4]
         /\ ~rpcAnswered[c][4] => result[c] = Err("SolanaClientError", "Transport")
    /\ (op[c] = "get" /\ pc[c] = "done" /\ checkObs[c] = Observed(PendingAcct, TRUE)) =>
         result[c] = Ok(Randomness("Pending", NoSig))

\* The step part of C17: the account of a seed becomes Fulfilled only by the
\* oracle's transaction on the Pending account, a step in which no client call
\* moves.
FulfilledOnlyByOracle ==
  \A s \in Seeds :
    BecomesFulfilled(s) =>
      /\ acct[s].st = "Pending"
      /\ hist'[s] = <<FulfillTx>> \o hist[s]
      /\ UNCHANGED clientVars

\* C17: request_randomness does not wait for the fulfillment: the submission
\* is its last RPC call and the call returns with its outcome, so the account
\* it leaves may be Pending and get_randomness then returns Pending with no
\* signature; only the oracle's transaction makes the account Fulfilled.
C17_ReturnsWithoutWaiting ==
  /\ []ReturnsAfterSubmission
  /\ [][FulfilledOnlyByOracle]_vars

\* C17 witness: a call submitted and returned Ok, the account it created is
\* still Pending, and the other client's get_randomness returned the Pending
\* record without signature.
C17_Witness ==
  /\ Requesting("c1") /\ Submitted("c1") /\ pc["c1"] = "done"
  /\ result["c1"] = OkUnit
  /\ calls["c1"] = 1 /\ calls["c2"] = 1
  /\ acct["s1"] = PendingAcct
  /\ op["c2"] = "get" /\ pc["c2"] = "done"
  /\ result["c2"] = Ok(Randomness("Pending", NoSig))

\* C10: a get_randomness call that meets no randomness account for the seed
\* returns the client error of the account fetch, carries no Randomness record
\* and issues no other RPC call than get_account (no submission).
C10_GetAbsentIsClientError ==
  \A c \in Clients :
    (op[c] = "get" /\ pc[c] = "done" /\ checkObs[c].st = "Absent") =>
      /\ result[c].kind = "SolanaClientError"
      /\ result[c].value = NoRecord
      /\ rpcLog[c] = <<"get_account">>

\* C10 witness: get_randomness was answered for a seed without account and has
\* returned the AccountNotFound client error.
C10_Witness ==
  \E c \in Clients :
    /\ op[c] = "get" /\ pc[c] = "done"
    /\ checkObs[c] = [st |-> "Absent", rpc |-> "answered"]
    /\ result[c] = Err("SolanaClientError", "AccountNotFound")

\* ----------------------------------------------------- claims on the scan
VDone == vpc = "done"
VOk == VDone /\ vresult.kind = "Ok"
\* No RPC call of the verification failed in transport.
VRpcAnswered == vresult.cause # "Transport"
Listed == 1..Len(vsigs)
SuccessStatus(tx) == tx.status = "ok"
Qualifies(tx) == tx.vrfIx /\ tx.edIx
\* tx is a genuine fulfillment transaction for the record under verification.
Genuine(tx) ==
  /\ SuccessStatus(tx)
  /\ Qualifies(tx)
  /\ Ed25519Verify(tx.key, vseed, vrec.randomness)
\* The listed signatures are the history of the account at the listing: the
\* ledger has at most put newer transactions in front since.
ListedIsHistory ==
  LET h == hist[vseed] IN
  /\ Len(vsigs) <= Len(h)
  /\ \A i \in Listed : vsigs[i] = h[Len(h) - Len(vsigs) + i]
ErrorKinds == {"SolanaClientError", "NotFound", "RandomnessVerifyError"}

\* C2: verify_randomness_offchain returns Ok only if the history of the
\* account holds a transaction with success status that qualifies as a VRF
\* fulfillment transaction and whose embedded key validates the record's
\* signature over the seed (and that transaction is the one it checked); every
\* other call that returns, returns an error.
C2_FailsClosed ==
  /\ VOk => /\ ListedIsHistory
            /\ \E i \in vchecked : Genuine(vsigs[i])
  /\ (VDone /\ ~VOk) => vresult.kind \in ErrorKinds
  /\ (VDone /\ vsigs = <<>>) => ~VOk
  /\ (VDone /\ ~VRpcAnswered) => ~VOk

\* C2 witness: Ok was returned over a history that also holds transactions
\* which are not genuine.
C2_Witness ==
  /\ VOk
  /\ \E i \in Listed : ~Genuine(vsigs[i])
  /\ \E i \in Listed : Genuine(vsigs[i])

\* C3 as stated: whenever the listed history holds a genuine fulfillment
\* transaction and every RPC call is answered, the call returns Ok, whatever
\* else the history holds and wherever the genuine transaction sits.
C3_GenuineAnywhereOk ==
  (VDone /\ VRpcAnswered /\ \E i \in Listed : Genuine(vsigs[i])) => VOk

\* The first listed transaction with success status that qualifies is genuine.
FirstCandidateGenuine ==
  \E i \in Listed :
    /\ Genuine(vsigs[i])
    /\ \A j \in 1..(i - 1) : ~(SuccessStatus(vsigs[j]) /\ Qualifies(vsigs[j]))

\* C3 amended: when every RPC call is answered and the first listed
\* transaction that has success status and qualifies is genuine, the call
\* returns Ok, whatever failed or non-qualifying transactions precede it and
\* whatever follows it.
C3_FirstCandidateGenuineOk ==
  (VDone /\ VRpcAnswered /\ FirstCandidateGenuine) => VOk

\* C3 witness: Ok for a genuine transaction that is last in a list of three.
C3_Witness ==
  /\ VOk
  /\ Len(vsigs) = 3
  /\ vidx = 3
  /\ Genuine(vsigs[3])

\* C4: a transaction whose status is an error is never handed to
\* is_vrf_fulfilled_transaction nor to the cryptographic check; and a history
\* of failed fulfillment transactions and a genuine successful one verifies Ok
\* when every RPC call is answered.
C4_FailedStatusSkipped ==
  /\ \A i \in vtested \cup vchecked : vsigs[i].status # "err"
  /\ (/\ VDone
      /\ VRpcAnswered
      /\ \E i \in Listed : Genuine(vsigs[i])
      /\ \A i \in Listed : Genuine(vsigs[i]) \/ vsigs[i] = FailedFulfillTx)
       => VOk

\* C4 witness: the loop has passed a failed fulfillment transaction, which
\* holds the companion instruction, and returned Ok on the genuine one after it.
C4_Witness ==
  /\ VOk
  /\ vsigs = <<FailedFulfillTx, FulfillTx>>
  /\ vidx = 2
  /\ vtested = {2}

\* The listing was answered with no signature.
ListedNone == vpc \notin {"idle", "list"} /\ VRpcAnswered /\ vsigs = <<>>

\* C5: when the listing returns no signature the call fails with NotFound and
\* has issued no get_transaction call.
C5_EmptyListNotFound ==
  ListedNone =>
    /\ VDone
    /\ vresult.kind = "NotFound"
    /\ vlog = <<"get_signatures_for_address">>

\* C5 witness: the account has no history and the call has returned.
C5_Witness == ListedNone /\ VDone /\ hist[vseed] = <<>>

\* The loop visited every listed signature and returned on none.
Exhausted ==
  /\ VDone /\ VRpcAnswered
  /\ Len(vsigs) > 0 /\ vidx = Len(vsigs) /\ vchecked = {}

C9_PendingRecordNeverOk ==
  (vpc # "idle" /\ vrec.randomness = NoSig) =>
    /\ vresult.kind # "Ok"
    /\ randomness_signature(vrec) = ZeroSig
    /\ VDone => /\ vresult.kind \in ErrorKinds
                /\ Has(vlog, "get_signatures_for_address")
    /\ vchecked # {} => vresult = Err("RandomnessVerifyError", "Invalid randomness")

\* C9 witness: a Pending record, the oracle's fulfillment transaction was
\* fetched and checked, the call has failed.
C9_Witness ==
  /\ vrec = Randomness("Pending", NoSig)
  /\ VDone
  /\ vchecked # {}
  /\ \E i \in vchecked : vsigs[i] = FulfillTx

\* ------------------------------------------------- the course of the scan
\* Listed transactions with success status that qualify.
Candidates == {i \in Listed : SuccessStatus(vsigs[i]) /\ Qualifies(vsigs[i])}
Min(S) == CHOOSE x \in S : \A y \in S : x <= y
Fetches == Count(vlog, "get_transaction")

\* C12: once the loop has visited the first listed transaction that has success
\* status and qualifies, the call has returned: Ok if that transaction's key
\* validates the record's signature over the seed, the verification error if
\* not; that transaction is the only one checked and the last one fetched.
C12_FirstCandidateDecides ==
  /\ vchecked \subseteq Candidates
  /\ (Candidates \cap 1..vidx # {}) =>
       LET k == Min(Candidates) IN
       /\ VDone
       /\ vidx = k
       /\ vchecked = {k}
       /\ Fetches = k
       /\ vresult = IF Genuine(vsigs[k]) THEN OkUnit
                    ELSE Err("RandomnessVerifyError", "Invalid randomness")

\* C12 witness: the first of three listed transactions is a candidate whose
\* check failed; a genuine transaction behind it was never fetched.
C12_Witness ==
  /\ VDone
  /\ Len(vsigs) = 3
  /\ vchecked = {1}
  /\ vresult.kind = "RandomnessVerifyError"
  /\ Genuine(vsigs[3])
  /\ Fetches = 1

\* The call reported that no fulfillment transaction was found.
NoneFound == VDone /\ vresult \in {EmptyListResult, ExhaustedResult}

\* C13: when the call reports that no fulfillment transaction was found, every
\* listed signature was fetched, and each transaction was either skipped for
\* its status or tested and found not to qualify; the list is the history of
\* the account as the listing returned it.
C13_NoneFoundAfterFullScan ==
  NoneFound =>
    /\ ListedIsHistory
    /\ vidx = Len(vsigs)
    /\ vfetched = [i \in Listed |-> i]
    /\ \A i \in Listed :
         \/ ~SuccessStatus(vsigs[i]) /\ i \notin vtested
         \/ i \in vtested /\ ~Qualifies(vsigs[i])

\* C13 witness: three listed transactions, skipped or not qualifying, all
\* visited before the report.
C13_Witness ==
  /\ NoneFound
  /\ Len(vsigs) = 3
  /\ vtested # {}
  /\ \E i \in Listed : ~SuccessStatus(vsigs[i])

\* C14: a get_transaction call that fails in transport ends the call with the
\* transport error: it is the last RPC call issued, and the result is neither
\* Ok nor the report that no fulfillment transaction was found.
C14_FetchFailureReturned ==
  vfailedAt >= 2 =>
    /\ VDone
    /\ vresult = Err("SolanaClientError", "Transport")
    /\ Len(vlog) = vfailedAt
    /\ vidx = vfailedAt - 2
    /\ Len(vfetched) = vfailedAt - 1

\* C14 witness: the fetch of the first of three signatures failed, a genuine
\* fulfillment transaction sits later in the list.
C14_Witness ==
  /\ vfailedAt = 2
  /\ VDone
  /\ Len(vsigs) = 3
  /\ Genuine(vsigs[2])

\* C16: a fetched transaction without status metadata is skipped: it is never
\* handed to is_vrf_fulfilled_transaction nor to the cryptographic check, and
\* the loop goes on to the next signature (whose fetch may fail) or, after the
\* last one, ends as an exhausted scan, as it does after a failed transaction.
C16_NoMetaSkipped ==
  /\ \A i \in vtested \cup vchecked : vsigs[i].status # "nometa"
  /\ \A i \in 1..vidx :
       vsigs[i].status = "nometa" =>
         /\ i \notin vtested
         /\ (i = vidx /\ i < Len(vsigs)) => vpc = "scan" \/ vfailedAt = i + 2
         /\ (i = vidx /\ i = Len(vsigs)) => vresult = ExhaustedResult

\* C16 witness: the loop has passed a transaction without meta that holds both
\* instructions and the oracle's key, and returned Ok on the one after it.
C16_Witness ==
  /\ VOk
  /\ vsigs = <<NoMetaFulfillTx, FulfillTx>>
  /\ vtested = {2}

\* The RPC calls of one verification: one listing, then one fetch for each of
\* the first signatures of the list, in list order, each at most once.
BoundedScan ==
  /\ vpc \in {"idle", "list"} => vlog = <<>>
  /\ vpc \in {"scan", "done"} =>
       /\ vlog = <<"get_signatures_for_address">>
                   \o [i \in 1..Len(vfetched) |-> "get_transaction"]
       /\ Len(vfetched) <= Len(vsigs)
       /\ vfetched = [i \in 1..Len(vfetched) |-> i]
       /\ vidx <= Len(vfetched)

\* C18: when every RPC call returns, a started verification ends; it issues
\* exactly one get_signatures_for_address call and at most one get_transaction
\* call for each listed signature, visiting the signatures once each in list
\* order.
C18_TerminatesBoundedScan ==
  /\ []BoundedScan
  /\ (vpc \in {"list", "scan"}) ~> VDone

\* C18 witness: a verification over three listed signatures has ended after
\* fetching each of them once.
C18_Witness ==
  /\ VDone
  /\ Len(vsigs) = 3
  /\ vfetched = <<1, 2, 3>>
  /\ Len(vlog) = 4

\* A step of get_randomness or verify_randomness_offchain: a call of one of
\* them starts, issues an RPC call or returns.
ReadStep ==
  \/ vpc' # vpc
  \/ \E c \in Clients : pc'[c] # pc[c] /\ op'[c] = "get"

\* No RPC call of a read operation is a submission.
ReadsNeverSubmit ==
  /\ \A c \in Clients : op[c] = "get" => rpcLog[c] \in {<<>>, <<"get_account">>}
  /\ \A i \in 1..Len(vlog) : vlog[i] \in {"get_signatures_for_address", "get_transaction"}

\* A repeated get_randomness call that read the account in the state the call
\* before it read it in, with the same transport outcome, issued the same RPC
\* calls and returned the same result; likewise a repeated
\* verify_randomness_offchain call that was given the same listing, its RPC
\* calls failing at the same position if at all.
SameAsBefore ==
  /\ \A c \in Clients :
       (/\ op[c] = "get" /\ pc[c] = "done"
        /\ prev[c].kind = "get"
        /\ prev[c].seed = seed[c]
        /\ prev[c].obs = checkObs[c]) =>
         /\ prev[c].log = rpcLog[c]
         /\ prev[c].result = result[c]
  /\ (/\ VDone
      /\ vprev.kind = "verify"
      /\ vprev.seed = vseed /\ vprev.rec = vrec
      /\ vprev.sigs = vsigs
      /\ vprev.failedAt = vfailedAt) =>
       /\ vprev.log = vlog
       /\ vprev.result = vresult

TypeOK ==
  /\ \A s \in Seeds : acct[s].st \in {"Absent", "Corrupt", "Pending", "Fulfilled"}
  /\ \A c \in Clients : pc[c] \in {"idle", "req_check", "req_config", "req_blockhash",
                                    "req_send", "get_fetch", "done"}

====
